---- MODULE Spec2Model ----
(***************************************************************************)
(* Argon3 key derivation (src/argon3.go): parameter validation and memory  *)
(* normalisation in deriveKey, initHash, initBlocks, the pass/slice/lane   *)
(* scheduler processBlocks with its per-lane goroutines, the reference     *)
(* index computation indexAlpha/phi, and extractKey.                       *)
(*                                                                         *)
(* Representation.                                                         *)
(*  - TLC integers are 31-bit, so a uint32 whose full range matters is a   *)
(*    pair <<hi, lo>> of 16-bit limbs and a uint64 is a 4-tuple of 16-bit  *)
(*    limbs, most significant first; the operators below wrap as Go does.  *)
(*  - A block (128 uint64 words) is represented by a BlockBits-bit digest  *)
(*    of its contents.  XOR of blocks is XOR of digests, the all-zero      *)
(*    block has digest 0.  The hash H (blake3) and the compression G are   *)
(*    fixed deterministic functions on digests.                            *)
(***************************************************************************)
EXTENDS Integers, Sequences, FiniteSets, TLC

VARIABLES
  pc,       \* where deriveKey is
  cfg,      \* the arguments of deriveKey: mode, time, memory, threads, keyLen
  params,   \* the parameter block initHash wrote to the hash
  h0,       \* the result of initHash
  memory,   \* deriveKey's variable memory
  B,        \* the memory matrix, block index -> block
  wr,       \* block index -> the slice (4n + slice) that last wrote it,
            \* -1 for a block written by initBlocks, -2 for one never written
  n, slice, lane,  \* the loop variables of processBlocks
  wg,       \* the counter of the slice's WaitGroup
  workers,  \* the processSegment goroutines that have not returned
  ev,       \* the loop iteration a goroutine has just executed
  key,      \* the result of deriveKey
  alpha,    \* a segment walked with arbitrary random words (SpecAlpha)
  norm      \* one adjustment of memory (SpecNorm)

\* ------------------------------------------------------------ bounds
MaxTime == 2
MaxThreads == 2
MaxMemSteps == 2
BlockBits == 6
BigSegments == 130
MaxAlphaThreads == 3
MaxAlphaSegments == 3
KeyLen == 4
MaxNormLow == 17

\* ------------------------------------------------- program constants
Version == 19
argon3d == 0
argon3i == 1
argon3id == 2
blockLength == 128
syncPoints == 4
MaxUint8 == 255

Modes == {argon3d, argon3i, argon3id}

\* ------------------------------------------------ fixed-width integers
RECURSIVE Pow2(_)
Pow2(k) == IF k = 0 THEN 1 ELSE 2 * Pow2(k - 1)

\* the radix of the limbs a uint32 and a uint64 are written in
Limb == Pow2(16)

\* uint32(x) for a small non-negative x
U32(x) == <<x \div Limb, x % Limb>>

\* the value of a uint32 below 2^31
ToInt(a) == a[1] * Limb + a[2]

Add32(a, b) ==
  LET lo == a[2] + b[2]
      hi == a[1] + b[1] + (lo \div Limb)
  IN  <<hi % Limb, lo % Limb>>

Sub32(a, b) ==
  LET lo == a[2] - b[2]
      hi == a[1] - b[1] - (IF lo < 0 THEN 1 ELSE 0)
  IN  <<hi % Limb, lo % Limb>>

Lt32(a, b) == a[1] < b[1] \/ (a[1] = b[1] /\ a[2] < b[2])

\* a / d and a * d (wrapping) and a % d for a uint32 a and 0 < d < 2^15
Div32(a, d) ==
  LET r == a[1] % d
  IN  <<a[1] \div d, (r * Limb + a[2]) \div d>>

Mul32(a, d) ==
  LET lo == a[2] * d
      hi == a[1] * d + (lo \div Limb)
  IN  <<hi % Limb, lo % Limb>>

Mod32(a, d) == ((a[1] % d) * Limb + a[2]) % d

\* the 32-bit product of two 16-bit limbs, as <<hi, lo>>
Mul16(a, b) ==
  LET t == (a \div 256) * b
      u == (a % 256) * b
      v == t + (u \div 256)
  IN  <<v \div 256, (v % 256) * 256 + (u % 256)>>

\* the 64-bit product of two uint32, as four limbs
Mul64(a, b) ==
  LET p00 == Mul16(a[2], b[2])
      p01 == Mul16(a[2], b[1])
      p10 == Mul16(a[1], b[2])
      p11 == Mul16(a[1], b[1])
      t1 == p00[1] + p01[2] + p10[2]
      t2 == p01[1] + p10[1] + p11[2] + (t1 \div Limb)
      t3 == p11[1] + (t2 \div Limb)
  IN  <<t3 % Limb, t2 % Limb, t1 % Limb, p00[2]>>

U64(a) == <<0, 0, a[1], a[2]>>

Add64(a, b) ==
  LET t4 == a[4] + b[4]
      t3 == a[3] + b[3] + (t4 \div Limb)
      t2 == a[2] + b[2] + (t3 \div Limb)
      t1 == a[1] + b[1] + (t2 \div Limb)
  IN  <<t1 % Limb, t2 % Limb, t3 % Limb, t4 % Limb>>

Sub64(a, b) ==
  LET t4 == a[4] - b[4]
      t3 == a[3] - b[3] - (IF t4 < 0 THEN 1 ELSE 0)
      t2 == a[2] - b[2] - (IF t3 < 0 THEN 1 ELSE 0)
      t1 == a[1] - b[1] - (IF t2 < 0 THEN 1 ELSE 0)
  IN  <<t1 % Limb, t2 % Limb, t3 % Limb, t4 % Limb>>

\* a % d for a uint64 a and 0 < d < 2^15
Mod64(a, d) ==
  LET r1 == a[1] % d
      r2 == (r1 * Limb + a[2]) % d
      r3 == (r2 * Limb + a[3]) % d
  IN  (r3 * Limb + a[4]) % d

\* binary.LittleEndian.PutUint32 / Uint32
PutUint32(a) == <<a[2] % 256, a[2] \div 256, a[1] % 256, a[1] \div 256>>

Uint32(b) == <<b[3] + 256 * b[4], b[1] + 256 * b[2]>>

\* ------------------------------------------------------------ blocks
Mask == Pow2(BlockBits)

RECURSIVE XorN(_, _, _)
XorN(a, b, k) ==
  IF k = 0 THEN 0
  ELSE ((a + b) % 2) + 2 * XorN(a \div 2, b \div 2, k - 1)

Xor(a, b) == XorN(a, b, BlockBits)

zero == 0

\* word i of a block, as a uint64
Word(b, i) ==
  << (b * 977 + i * 13 + 5) % Limb,
     (b * 3 + i + (b \div 4)) % Limb,
     (b * 1031 + i * 4099 + (b \div 2) * 9973 + 77) % Limb,
     (b * 31337 + i) % Limb >>

\* the counter-input block `in` of processSegment, from its words in[0..6]
InBlock(in) ==
  (in[1] + 3 * in[2] + 5 * in[3] + 7 * in[4] + 11 * in[5] + 13 * in[6]
     + 17 * in[7]) % Mask

\* the permutation applied inside the compression function
Perm(z) == (z * 5 + 3) % Mask

G(X, Y) == Xor(Perm(Xor(X, Y)), Xor(X, Y))

processBlock(in1, in2) == G(in1, in2)

processBlockXOR(out, in1, in2) == Xor(out, G(in1, in2))

\* ------------------------------------------------------------ blake3
\* the hasher state after Write(in): a position-weighted sum of the bytes
RECURSIVE Absorb(_, _, _)
Absorb(in, lo, hi) ==
  IF lo > hi THEN 0
  ELSE IF lo = hi THEN (in[lo] + 1) * (2 * lo + 1)
  ELSE LET mid == (lo + hi) \div 2
       IN  Absorb(in, lo, mid) + Absorb(in, mid + 1, hi)

Squeeze(h, i) == (h * 7 + i * 11 + 1) % 256

\* blake3Hash(out, in): the first outLen bytes of the output stream
blake3Hash(outLen, in) ==
  LET h == Absorb(in, 1, Len(in)) % Mask
  IN  [i \in 1..outLen |-> Squeeze(h, i - 1)]

\* the block read from the first 1024 output bytes of blake3Hash(in)
HashBlock(in) == Absorb(in, 1, Len(in)) % Mask

\* the 1024 bytes a block is serialised to
BlockBytes(b) == <<b % 256, b \div 256>>


\* ------------------------------------------------- deriveKey, initHash
\* Normalize with the floor at one segment per slice instead of two
NormalizeLowFloor(memory_, threads) ==
  LET d == syncPoints * threads
      m1 == Mul32(Div32(memory_, d), d)
  IN  IF Lt32(m1, U32(syncPoints * threads))
      THEN U32(syncPoints * threads)
      ELSE m1

\* memory after the adjustment of deriveKey
Normalize(memory_, threads) ==
  LET d == syncPoints * threads
      m1 == Mul32(Div32(memory_, d), d)
  IN  IF Lt32(m1, U32(2 * syncPoints * threads))
      THEN U32(2 * syncPoints * threads)
      ELSE m1

\* the 24-byte parameter block of initHash
initHashParams(time, memory_, threads, keyLen, mode) ==
  PutUint32(U32(threads)) \o PutUint32(U32(keyLen)) \o PutUint32(memory_)
    \o PutUint32(U32(time)) \o PutUint32(U32(Version)) \o PutUint32(U32(mode))

initHash(password, salt, key_, data, time, memory_, threads, keyLen, mode) ==
  LET stream == initHashParams(time, memory_, threads, keyLen, mode)
                  \o PutUint32(U32(Len(password))) \o password
                  \o PutUint32(U32(Len(salt))) \o salt
                  \o PutUint32(U32(Len(key_))) \o key_
                  \o PutUint32(U32(Len(data))) \o data
  IN  blake3Hash(64, stream) \o <<0, 0, 0, 0, 0, 0, 0, 0>>

\* ---------------------------------------------------------- initBlocks
\* h0 with its scratch bytes h0[64:68] and h0[64+4:] set
SetScratch(h0_, i, lane_) ==
  SubSeq(h0_, 1, 64) \o PutUint32(U32(i)) \o PutUint32(U32(lane_))

RECURSIVE initLanes(_, _, _, _, _)
initLanes(Bm, h0_, lane_, memory_, threads) ==
  IF lane_ < threads
  THEN LET j == lane_ * (memory_ \div threads)
           B1 == [Bm EXCEPT ![j + 0] = HashBlock(SetScratch(h0_, 0, lane_)),
                            ![j + 1] = HashBlock(SetScratch(h0_, 1, lane_))]
       IN  initLanes(B1, h0_, lane_ + 1, memory_, threads)
  ELSE Bm

initBlocks(h0_, memory_, threads) ==
  initLanes([i \in 0..(memory_ - 1) |-> zero], h0_, 0, memory_, threads)

\* ------------------------------------------------------ indexAlpha, phi
phi(rand, m, s, lane_, lanes) ==
  LET p0 == <<rand[3], rand[4]>>
      pp == Mul64(p0, p0)
      p1 == <<pp[1], pp[2]>>
      pm == Mul64(p1, m)
      p2 == <<pm[1], pm[2]>>
      d  == Sub64(Add64(U64(U32(s)), U64(m)), Add64(U64(p2), U64(U32(1))))
  IN  lane_ * lanes + Mod64(d, lanes)

\* alphaWindow with index added to m in pass 0 whatever the reference lane
alphaWindowAnyIndex(rand, lanes, segments, threads, n_, slice_, lane_, index) ==
  LET refLane == IF n_ = 0 /\ slice_ = 0 THEN lane_
                 ELSE Mod32(<<rand[1], rand[2]>>, threads)
      m1 == IF n_ = 0
            THEN slice_ * segments + index
            ELSE 3 * segments + (IF lane_ = refLane THEN index ELSE 0)
      s  == IF n_ = 0 THEN 0 ELSE ((slice_ + 1) % syncPoints) * segments
      m  == IF index = 0 \/ lane_ = refLane
            THEN Sub32(U32(m1), U32(1))
            ELSE U32(m1)
  IN  [refLane |-> refLane, m |-> m, s |-> s]

\* alphaWindow with the reference lane not forced in pass 0, slice 0
alphaWindowFreeLane(rand, lanes, segments, threads, n_, slice_, lane_, index) ==
  LET refLane == Mod32(<<rand[1], rand[2]>>, threads)
      m1 == IF n_ = 0
            THEN slice_ * segments
                   + (IF slice_ = 0 \/ lane_ = refLane THEN index ELSE 0)
            ELSE 3 * segments + (IF lane_ = refLane THEN index ELSE 0)
      s  == IF n_ = 0 THEN 0 ELSE ((slice_ + 1) % syncPoints) * segments
      m  == IF index = 0 \/ lane_ = refLane
            THEN Sub32(U32(m1), U32(1))
            ELSE U32(m1)
  IN  [refLane |-> refLane, m |-> m, s |-> s]

\* alphaWindow with the window of a later pass starting at the current slice
alphaWindowStartAtSlice(rand, lanes, segments, threads, n_, slice_, lane_, index) ==
  LET refLane == IF n_ = 0 /\ slice_ = 0 THEN lane_
                 ELSE Mod32(<<rand[1], rand[2]>>, threads)
      m1 == IF n_ = 0
            THEN slice_ * segments
                   + (IF slice_ = 0 \/ lane_ = refLane THEN index ELSE 0)
            ELSE 3 * segments + (IF lane_ = refLane THEN index ELSE 0)
      s  == IF n_ = 0 THEN 0 ELSE (slice_ % syncPoints) * segments
      m  == IF index = 0 \/ lane_ = refLane
            THEN Sub32(U32(m1), U32(1))
            ELSE U32(m1)
  IN  [refLane |-> refLane, m |-> m, s |-> s]

\* refLane, m and s of indexAlpha, as handed to phi
alphaWindow(rand, lanes, segments, threads, n_, slice_, lane_, index) ==
  LET refLane == IF n_ = 0 /\ slice_ = 0 THEN lane_
                 ELSE Mod32(<<rand[1], rand[2]>>, threads)
      m1 == IF n_ = 0
            THEN slice_ * segments
                   + (IF slice_ = 0 \/ lane_ = refLane THEN index ELSE 0)
            ELSE 3 * segments + (IF lane_ = refLane THEN index ELSE 0)
      s  == IF n_ = 0 THEN 0 ELSE ((slice_ + 1) % syncPoints) * segments
      m  == IF index = 0 \/ lane_ = refLane
            THEN Sub32(U32(m1), U32(1))
            ELSE U32(m1)
  IN  [refLane |-> refLane, m |-> m, s |-> s]

indexAlpha(rand, lanes, segments, threads, n_, slice_, lane_, index) ==
  LET w == alphaWindow(rand, lanes, segments, threads, n_, slice_, lane_, index)
  IN  phi(rand, w.m, w.s, w.refLane, lanes)

\* ------------------------------------------------------- processSegment
\* p: the arguments of processBlocks and its locals lanes and segments
Args(mode, time, memory_, threads) ==
  [mode |-> mode, time |-> time, memory |-> memory_, threads |-> threads,
   lanes |-> memory_ \div threads,
   segments |-> (memory_ \div threads) \div syncPoints]

\* DataIndependent with the hybrid mode's bound one slice too far
DataIndependentThreeSlices(mode, n_, slice_) ==
  mode = argon3i \/ (mode = argon3id /\ n_ = 0 /\ slice_ <= syncPoints \div 2)

DataIndependent(mode, n_, slice_) ==
  mode = argon3i \/ (mode = argon3id /\ n_ = 0 /\ slice_ < syncPoints \div 2)

\* needAddresses with the address block renewed one position late
needAddressesLate(indep, index) == indep /\ index % blockLength = 1

\* whether the loop of processSegment computes a new address block at index
needAddresses(indep, index) == indep /\ index % blockLength = 0

\* the address block for the counter-input block in
nextAddresses(in) == processBlock(processBlock(InBlock(in), zero), zero)

\* processSegment up to the loop: in, index, addresses, offset
segBegin(n_, slice_, lane_, p) ==
  LET in0 == IF DataIndependent(p.mode, n_, slice_)
             THEN <<n_, lane_, slice_, p.memory, p.time, p.mode, 0>>
             ELSE <<0, 0, 0, 0, 0, 0, 0>>
      first == n_ = 0 /\ slice_ = 0
      pre == first /\ (p.mode = argon3i \/ p.mode = argon3id)
      in1 == IF pre THEN [in0 EXCEPT ![7] = @ + 1] ELSE in0
      index == IF first THEN 2 ELSE 0
  IN  [n |-> n_, slice |-> slice_, lane |-> lane_, pc |-> "loop",
       in |-> in1,
       addresses |-> IF pre THEN nextAddresses(in1) ELSE zero,
       used |-> 0,
       index |-> index,
       offset |-> lane_ * p.lanes + slice_ * p.segments + index]

\* the index of the previous block
prevOf(w, p) ==
  LET p1 == Sub32(U32(w.offset), U32(1))
  IN  ToInt(IF w.index = 0 /\ w.slice = 0 THEN Add32(p1, U32(p.lanes)) ELSE p1)

\* writeBlock with the destination overwritten instead of XORed
writeBlockOverwrite(Bm, offset, prev, newOffset) ==
  [Bm EXCEPT ![offset] = processBlock(Bm[prev], Bm[newOffset])]

\* the destination block after processBlockXOR(&B[offset], &B[prev], &B[newOffset])
writeBlock(Bm, offset, prev, newOffset) ==
  [Bm EXCEPT ![offset] = processBlockXOR(Bm[offset], Bm[prev], Bm[newOffset])]

\* one iteration of the loop of processSegment; w.used counts the words read
\* from the current address block
segStep(Bm, w, p) ==
  LET prev == prevOf(w, p)
      indep == DataIndependent(p.mode, w.n, w.slice)
      fresh == needAddresses(indep, w.index)
      in1 == IF fresh THEN [w.in EXCEPT ![7] = @ + 1] ELSE w.in
      addresses == IF fresh THEN nextAddresses(in1) ELSE w.addresses
      random == IF indep THEN Word(addresses, w.index % blockLength)
                ELSE Word(Bm[prev], 0)
      newOffset == indexAlpha(random, p.lanes, p.segments, p.threads,
                              w.n, w.slice, w.lane, w.index)
  IN  [B |-> writeBlock(Bm, w.offset, prev, newOffset),
       w |-> [w EXCEPT !.in = in1, !.addresses = addresses,
                       !.used = IF indep THEN (IF fresh THEN 0 ELSE @) + 1 ELSE @,
                       !.index = @ + 1, !.offset = @ + 1],
       prev |-> prev, ref |-> newOffset, random |-> random, indep |-> indep]

\* ----------------------------------------------------------- extractKey
RECURSIVE foldLanes(_, _, _, _)
foldLanes(Bm, lane_, memory_, threads) ==
  IF lane_ < threads - 1
  THEN LET lanes == memory_ \div threads
       IN  foldLanes([Bm EXCEPT ![memory_ - 1] = Xor(@, Bm[lane_ * lanes + lanes - 1])],
                     lane_ + 1, memory_, threads)
  ELSE Bm

extractKey(Bm, memory_, threads, keyLen) ==
  LET B1 == foldLanes(Bm, 0, memory_, threads)
  IN  [B |-> B1, key |-> blake3Hash(keyLen, BlockBytes(B1[memory_ - 1]))]


\* ================================================================ state
vars == <<pc, cfg, params, h0, memory, B, wr, n, slice, lane, wg, workers,
          ev, key, alpha, norm>>

password == <<112, 97, 115, 115>>
salt == <<115, 97, 108, 116>>

Memories == {U32(5 + 14 * k) : k \in 0..MaxMemSteps}

Configs ==
  [mode : Modes, time : 0..MaxTime, memory : Memories,
   threads : 0..MaxThreads, keyLen : {KeyLen}]
  \cup
  [mode : Modes, time : {1}, memory : {U32(syncPoints * BigSegments)},
   threads : {1}, keyLen : {KeyLen}]

NoEv ==
  [kind |-> "none", n |-> 0, slice |-> 0, lane |-> 0, index |-> 0,
   offset |-> 0, prev |-> 0, ref |-> 0, random |-> <<0, 0, 0, 0>>,
   indep |-> FALSE, old |-> 0, prevVal |-> 0, refVal |-> 0,
   prevWr |-> 0, refWr |-> 0, ctr0 |-> 0, ctr |-> 0, addresses |-> 0,
   used |-> 0]

NoAlpha ==
  [threads |-> 0, segments |-> 0, n |-> 0, slice |-> 0, lane |-> 0,
   index |-> 0, at |-> -1, rand |-> <<0, 0, 0, 0>>, ref |-> 0,
   m |-> <<0, 0>>, refLane |-> 0]

NoNorm == [memory |-> <<0, 0>>, threads |-> 0, eff |-> <<0, 0>>, done |-> FALSE]

Idle ==
  /\ params = <<>> /\ h0 = <<>> /\ B = <<>> /\ wr = <<>>
  /\ n = 0 /\ slice = 0 /\ lane = 0 /\ wg = 0 /\ workers = {}
  /\ ev = NoEv /\ key = <<>>

Init ==
  /\ pc = "deriveKey"
  /\ cfg \in Configs
  /\ memory = cfg.memory
  /\ Idle
  /\ alpha = NoAlpha
  /\ norm = NoNorm

\* the arguments processBlocks is called with, and its lanes and segments
P == Args(cfg.mode, cfg.time, ToInt(memory), cfg.threads)

\* ------------------------------------------------------------ deriveKey
\* CheckParams without the check of threads
CheckParamsTimeOnly ==
  /\ pc = "deriveKey"
  /\ pc' = IF cfg.time < 1 THEN "panic" ELSE "initHash"
  /\ UNCHANGED <<cfg, params, h0, memory, B, wr, n, slice, lane, wg, workers,
                 ev, key, alpha, norm>>

\* if time < 1 { panic } if threads < 1 { panic }
CheckParams ==
  /\ pc = "deriveKey"
  /\ pc' = IF cfg.time < 1 \/ cfg.threads < 1 THEN "panic" ELSE "initHash"
  /\ UNCHANGED <<cfg, params, h0, memory, B, wr, n, slice, lane, wg, workers,
                 ev, key, alpha, norm>>

\* InitHash called with the adjusted memory
InitHashNormalized ==
  /\ pc = "initHash"
  /\ params' = initHashParams(cfg.time, Normalize(memory, cfg.threads),
                              cfg.threads, cfg.keyLen, cfg.mode)
  /\ h0' = initHash(password, salt, <<>>, <<>>, cfg.time,
                    Normalize(memory, cfg.threads), cfg.threads, cfg.keyLen,
                    cfg.mode)
  /\ pc' = "normalize"
  /\ UNCHANGED <<cfg, memory, B, wr, n, slice, lane, wg, workers, ev, key,
                 alpha, norm>>

\* h0 := initHash(password, salt, secret, data, time, memory, threads, keyLen, mode)
InitHash ==
  /\ pc = "initHash"
  /\ params' = initHashParams(cfg.time, memory, cfg.threads, cfg.keyLen, cfg.mode)
  /\ h0' = initHash(password, salt, <<>>, <<>>, cfg.time, memory, cfg.threads,
                    cfg.keyLen, cfg.mode)
  /\ pc' = "normalize"
  /\ UNCHANGED <<cfg, memory, B, wr, n, slice, lane, wg, workers, ev, key,
                 alpha, norm>>

\* memory = memory / (syncPoints*threads) * (syncPoints*threads), raised to the floor
NormalizeMemory ==
  /\ pc = "normalize"
  /\ memory' = Normalize(memory, cfg.threads)
  /\ pc' = "initBlocks"
  /\ UNCHANGED <<cfg, params, h0, B, wr, n, slice, lane, wg, workers, ev, key,
                 alpha, norm>>

\* B := initBlocks(&h0, memory, threads), then the call of processBlocks
InitBlocks ==
  /\ pc = "initBlocks"
  /\ B' = initBlocks(h0, ToInt(memory), cfg.threads)
  /\ wr' = [i \in 0..(ToInt(memory) - 1) |->
              IF i % P.lanes < 2 THEN -1 ELSE -2]
  /\ n' = 0 /\ slice' = 0 /\ lane' = 0
  /\ pc' = "processBlocks"
  /\ UNCHANGED <<cfg, params, h0, memory, wg, workers, ev, key, alpha, norm>>

\* --------------------------------------------------------- processBlocks
\* wg.Add(1); go processSegment(n, slice, lane, &wg)
Spawn ==
  /\ pc = "processBlocks"
  /\ lane < P.threads
  /\ wg' = wg + 1
  /\ workers' = workers \cup
       {[n |-> n, slice |-> slice, lane |-> lane, pc |-> "begin",
         in |-> <<0, 0, 0, 0, 0, 0, 0>>, addresses |-> zero, used |-> 0,
         index |-> 0, offset |-> 0]}
  /\ lane' = lane + 1
  /\ ev' = NoEv
  /\ UNCHANGED <<pc, cfg, params, h0, memory, B, wr, n, slice, key, alpha, norm>>

\* Wait returning without waiting for the counter to reach zero
WaitNoBarrier ==
  /\ pc = "processBlocks"
  /\ lane = P.threads
  /\ lane' = 0
  /\ slice' = (slice + 1) % syncPoints
  /\ n' = IF slice + 1 = syncPoints THEN n + 1 ELSE n
  /\ pc' = IF slice + 1 = syncPoints /\ n + 1 = P.time
           THEN "extractKey" ELSE "processBlocks"
  /\ ev' = NoEv
  /\ UNCHANGED <<cfg, params, h0, memory, B, wr, wg, workers, key, alpha, norm>>

\* wg.Wait() returns, and the loops over slice and n advance
Wait ==
  /\ pc = "processBlocks"
  /\ lane = P.threads
  /\ wg = 0
  /\ lane' = 0
  /\ slice' = (slice + 1) % syncPoints
  /\ n' = IF slice + 1 = syncPoints THEN n + 1 ELSE n
  /\ pc' = IF slice + 1 = syncPoints /\ n + 1 = P.time
           THEN "extractKey" ELSE "processBlocks"
  /\ ev' = NoEv
  /\ UNCHANGED <<cfg, params, h0, memory, B, wr, wg, workers, key, alpha, norm>>

\* a goroutine runs processSegment up to its loop
Begin(w) ==
  /\ w.pc = "begin"
  /\ workers' = (workers \ {w}) \cup {segBegin(w.n, w.slice, w.lane, P)}
  /\ ev' = NoEv
  /\ UNCHANGED <<pc, cfg, params, h0, memory, B, wr, n, slice, lane, wg, key,
                 alpha, norm>>

\* a goroutine runs one iteration of the loop of processSegment
Step(w) ==
  /\ w.pc = "loop"
  /\ w.index < P.segments
  /\ \E r \in {segStep(B, w, P)} :
         /\ B' = r.B
         /\ wr' = [wr EXCEPT ![w.offset] = syncPoints * w.n + w.slice]
         /\ workers' = (workers \ {w}) \cup {r.w}
         /\ ev' = [kind |-> "step", n |-> w.n, slice |-> w.slice,
                   lane |-> w.lane, index |-> w.index, offset |-> w.offset,
                   prev |-> r.prev, ref |-> r.ref, random |-> r.random,
                   indep |-> r.indep, old |-> B[w.offset],
                   prevVal |-> B[r.prev], refVal |-> B[r.ref],
                   prevWr |-> wr[r.prev], refWr |-> wr[r.ref],
                   ctr0 |-> w.in[7], ctr |-> r.w.in[7],
                   addresses |-> r.w.addresses,
                   used |-> w.used]
  /\ UNCHANGED <<pc, cfg, params, h0, memory, n, slice, lane, wg, key, alpha, norm>>

\* the loop of processSegment ends: wg.Done() and the goroutine returns
Finish(w) ==
  /\ w.pc = "loop"
  /\ ~(w.index < P.segments)
  /\ wg' = wg - 1
  /\ workers' = workers \ {w}
  /\ ev' = NoEv
  /\ UNCHANGED <<pc, cfg, params, h0, memory, B, wr, n, slice, lane, key,
                 alpha, norm>>

\* return extractKey(B, memory, threads, keyLen)
ExtractKey ==
  /\ pc = "extractKey"
  /\ \E r \in {extractKey(B, ToInt(memory), cfg.threads, cfg.keyLen)} :
       B' = r.B /\ key' = r.key
  /\ pc' = "done"
  /\ ev' = NoEv
  /\ UNCHANGED <<cfg, params, h0, memory, wr, n, slice, lane, wg, workers,
                 alpha, norm>>

Next ==
  \/ CheckParams
  \/ InitHash
  \/ NormalizeMemory
  \/ InitBlocks
  \/ Spawn
  \/ Wait
  \/ \E w \in workers : Begin(w)
  \/ \E w \in workers : Step(w)
  \/ \E w \in workers : Finish(w)
  \/ ExtractKey

Spec == Init /\ [][Next]_vars

\* ------------------------------------------- the adjustment of memory
NormMemories ==
  {<<hi, lo>> : hi \in {0, 1, 32767, 32768, 65535},
                lo \in (0..MaxNormLow) \cup
                       {1019, 1020, 2039, 2040, 2041, 4079, 4080, 32768,
                        65279, 65280, 65535}}

NoCfg == [mode |-> argon3d, time |-> 0, memory |-> <<0, 0>>, threads |-> 0,
          keyLen |-> 0]

InitNorm ==
  /\ pc = "idle" /\ cfg = NoCfg /\ memory = <<0, 0>> /\ Idle
  /\ alpha = NoAlpha
  /\ norm \in [memory : NormMemories, threads : 1..MaxUint8,
               eff : {<<0, 0>>}, done : {FALSE}]

\* the adjustment of deriveKey applied to norm.memory and norm.threads
NormStep ==
  /\ ~norm.done
  /\ norm' = [norm EXCEPT !.eff = Normalize(norm.memory, norm.threads),
                          !.done = TRUE]
  /\ UNCHANGED <<pc, cfg, params, h0, memory, B, wr, n, slice, lane, wg,
                 workers, ev, key, alpha>>

SpecNorm == InitNorm /\ [][NormStep]_vars

\* --------------------------- a segment walked with arbitrary random words
Rands ==
  {<<h[1], h[2], l[1], l[2]>> :
     h \in {<<0, 0>>, <<0, 1>>, <<0, 2>>, <<32768, 3>>, <<65535, 65535>>},
     l \in {<<0, 0>>, <<0, 65535>>, <<32768, 0>>, <<46341, 0>>,
            <<56000, 1234>>, <<65535, 65535>>}}

InitAlpha ==
  /\ pc = "idle" /\ cfg = NoCfg /\ memory = <<0, 0>> /\ Idle
  /\ norm = NoNorm
  /\ \E t \in 1..MaxAlphaThreads, sg \in 2..MaxAlphaSegments,
        nn \in {0, 1}, sl \in 0..(syncPoints - 1) :
       \E l \in 0..(t - 1) :
         alpha = [NoAlpha EXCEPT !.threads = t, !.segments = sg, !.n = nn,
                                 !.slice = sl, !.lane = l,
                                 !.index = IF nn = 0 /\ sl = 0 THEN 2 ELSE 0]

\* one iteration of the loop of processSegment, its random word arbitrary
AlphaStep ==
  /\ alpha.index < alpha.segments
  /\ \E rand \in Rands :
       LET lanes == syncPoints * alpha.segments
           w == alphaWindow(rand, lanes, alpha.segments, alpha.threads,
                            alpha.n, alpha.slice, alpha.lane, alpha.index)
       IN  alpha' = [alpha EXCEPT
                       !.at = alpha.index, !.rand = rand,
                       !.ref = indexAlpha(rand, lanes, alpha.segments,
                                          alpha.threads, alpha.n, alpha.slice,
                                          alpha.lane, alpha.index),
                       !.m = w.m, !.refLane = w.refLane,
                       !.index = alpha.index + 1]
  /\ UNCHANGED <<pc, cfg, params, h0, memory, B, wr, n, slice, lane, wg,
                 workers, ev, key, norm>>

SpecAlpha == InitAlpha /\ [][AlphaStep]_vars

\* ------------------------------ deriveKey with the lanes run one by one
\* (each intermediate state is bound by a set comprehension, so that it is
\* evaluated before the run continues from it)
RECURSIVE runSteps(_, _, _)
runSteps(st, k, p) ==
  IF k <= 0 THEN st
  ELSE IF k = 1 THEN LET r == segStep(st.B, st.w, p) IN [B |-> r.B, w |-> r.w]
  ELSE CHOOSE y \in {runSteps(x, k - (k \div 2), p) :
                       x \in {runSteps(st, k \div 2, p)}} : TRUE

runSegment(Bm, n_, slice_, lane_, p) ==
  LET w == segBegin(n_, slice_, lane_, p)
  IN  runSteps([B |-> Bm, w |-> w], p.segments - w.index, p).B

RECURSIVE runLanes(_, _, _, _, _)
runLanes(Bm, n_, slice_, lane_, p) ==
  IF lane_ < p.threads
  THEN CHOOSE y \in {runLanes(x, n_, slice_, lane_ + 1, p) :
                       x \in {runSegment(Bm, n_, slice_, lane_, p)}} : TRUE
  ELSE Bm

RECURSIVE runSlices(_, _, _)
runSlices(Bm, k, p) ==
  IF k < syncPoints * p.time
  THEN CHOOSE y \in {runSlices(x, k + 1, p) :
                       x \in {runLanes(Bm, k \div syncPoints, k % syncPoints, 0, p)}} : TRUE
  ELSE Bm

deriveKeySequential(c) ==
  LET h == initHash(password, salt, <<>>, <<>>, c.time, c.memory, c.threads,
                    c.keyLen, c.mode)
      mem == ToInt(Normalize(c.memory, c.threads))
      p == Args(c.mode, c.time, mem, c.threads)
      B1 == runSlices(initBlocks(h, mem, c.threads), 0, p)
  IN  extractKey(B1, mem, c.threads, c.keyLen)

\* =============================================================== claims
Valid == cfg.time >= 1 /\ cfg.threads >= 1

\* C1: whatever the interleaving of the goroutines of a slice, deriveKey
\* ends with the memory matrix and the key that running the lanes of every
\* slice one after the other yields, so the output depends on the inputs only.
C1_Deterministic ==
  pc = "done" =>
    LET r == deriveKeySequential(cfg)
    IN  B = r.B /\ key = r.key

C1_Witness ==
  pc = "done" /\ cfg.threads = 2 /\ cfg.time = 2 /\ cfg.mode = argon3d
    /\ P.segments >= 4

\* C2: a loop iteration writes a block of its own lane's current segment, and
\* each block it reads (prev and newOffset) is either in its own lane, written
\* before (by initBlocks, by an earlier slice, or at a lower position of this
\* segment), or in another lane and last written in a strictly earlier slice;
\* none of the three lies in the current segment of another lane.
C2_DisjointAccess ==
  ev.kind = "step" =>
    LET now == syncPoints * ev.n + ev.slice
        base == ev.lane * P.lanes + ev.slice * P.segments
        Own(r) == r \div P.lanes = ev.lane
        Current(r) == (r % P.lanes) \div P.segments = ev.slice
    IN  /\ base <= ev.offset /\ ev.offset < base + P.segments
        /\ \A x \in {<<ev.prev, ev.prevWr>>, <<ev.ref, ev.refWr>>} :
             /\ x[1] >= 0 /\ x[1] < P.memory
             /\ IF Own(x[1])
                THEN /\ x[1] # ev.offset
                     /\ x[2] >= -1 /\ x[2] <= now
                     /\ (x[2] = now => x[1] < ev.offset)
                ELSE x[2] >= -1 /\ x[2] < now
        /\ \A r \in {ev.offset, ev.prev, ev.ref} : Current(r) => Own(r)

C2_Witness ==
  ev.kind = "step" /\ ev.n = 1 /\ ev.ref \div P.lanes # ev.lane
    /\ \E w \in workers : w.lane # ev.lane /\ w.pc = "loop"

\* C3: with time < 1 or threads < 1 deriveKey panics at once: nothing is
\* hashed, no block is allocated or processed, and no key is returned.
C3_Rejected ==
  ~Valid =>
    /\ pc \in {"deriveKey", "panic"}
    /\ params = <<>> /\ h0 = <<>> /\ memory = cfg.memory
    /\ B = <<>> /\ workers = {} /\ wg = 0 /\ ev = NoEv /\ key = <<>>

C3_Witness == pc = "panic" /\ cfg.threads = 0 /\ cfg.time >= 1

\* C4: for every uint32 memory and threads in 1..255 the adjusted memory is a
\* multiple of 4*threads, at least 8*threads, equal to 8*threads when memory
\* is below 8*threads, and otherwise the largest multiple of 4*threads that
\* does not exceed memory (so nothing wrapped around 2^32).
C4_EffectiveMemory ==
  norm.done =>
    LET d == 4 * norm.threads
        e == norm.eff
        m == norm.memory
    IN  /\ Mod32(e, d) = 0
        /\ ~Lt32(e, U32(2 * d))
        /\ IF Lt32(m, U32(2 * d))
           THEN e = U32(2 * d)
           ELSE ~Lt32(m, e) /\ Lt32(Sub32(m, e), U32(d))

C4_Witness ==
  norm.done /\ norm.memory = <<65535, 65535>> /\ norm.threads = MaxUint8
    /\ norm.eff = <<65535, 65280>>

\* C5: in hybrid mode a loop iteration takes its random word from the address
\* block exactly when n = 0 and slice < 2, and from word 0 of the previous
\* block otherwise.
C5_HybridSchedule ==
  (ev.kind = "step" /\ cfg.mode = argon3id) =>
    /\ ev.indep <=> (ev.n = 0 /\ ev.slice < 2)
    /\ ev.indep => ev.random = Word(ev.addresses, ev.index % blockLength)
    /\ ~ev.indep => ev.random = Word(ev.prevVal, 0)

C5_Witness ==
  ev.kind = "step" /\ cfg.mode = argon3id /\ ev.n = 1 /\ ev.slice = 1
    /\ ~ev.indep /\ ev.random # Word(ev.addresses, ev.index % blockLength)

\* C6 as stated: the third field of the parameter block is the adjusted memory.
C6_HashesEffectiveMemory ==
  params # <<>> =>
    Uint32(SubSeq(params, 9, 12)) = Normalize(cfg.memory, cfg.threads)

\* C6 as amended: the parameter block is 24 bytes, its fields are threads,
\* keyLen, the memory as requested by the caller, time, Version and mode, so
\* calls that differ in the requested memory hash different parameter blocks
\* even when their adjusted memories agree.
C6_HashesRequestedMemory ==
  params # <<>> =>
    /\ Len(params) = 24
    /\ Uint32(SubSeq(params, 1, 4)) = U32(cfg.threads)
    /\ Uint32(SubSeq(params, 5, 8)) = U32(cfg.keyLen)
    /\ Uint32(SubSeq(params, 9, 12)) = cfg.memory
    /\ Uint32(SubSeq(params, 13, 16)) = U32(cfg.time)
    /\ Uint32(SubSeq(params, 17, 20)) = U32(Version)
    /\ Uint32(SubSeq(params, 21, 24)) = U32(cfg.mode)

C6_Witness ==
  /\ pc = "initBlocks"
  /\ memory # cfg.memory
  /\ Uint32(SubSeq(params, 9, 12)) # memory

\* C7: the slices run in the order (0,0), (0,1), ..., (time-1,3); every live
\* goroutine belongs to the slice the scheduler is at; the scheduler moves to
\* the next slice only when all lanes were spawned and every goroutine has
\* returned, and it leaves the loops only after slice 3 of pass time-1.
C7_Barrier ==
  [][ /\ \A w \in workers' : w.n = n' /\ w.slice = slice'
      /\ (pc = "processBlocks" /\ <<n', slice'>> # <<n, slice>>) =>
           /\ workers = {} /\ wg = 0 /\ lane = cfg.threads
           /\ syncPoints * n' + slice' = syncPoints * n + slice + 1
      /\ (pc = "processBlocks" /\ pc' # "processBlocks") =>
           /\ pc' = "extractKey"
           /\ n = cfg.time - 1 /\ slice = syncPoints - 1
           /\ workers = {} ]_vars

C7_Witness ==
  pc = "processBlocks" /\ n = 1 /\ slice = 0 /\ cfg.threads = 2
    /\ Cardinality(workers) = 2

\* C8: after a loop iteration of pass 0 the destination block is
\* G(B[prev], B[newOffset]); after one of a later pass it is its previous
\* content XOR G(B[prev], B[newOffset]).
C8_OverwriteThenXor ==
  ev.kind = "step" =>
    B[ev.offset] = IF ev.n = 0
                   THEN G(ev.prevVal, ev.refVal)
                   ELSE Xor(ev.old, G(ev.prevVal, ev.refVal))

C8_Witness ==
  ev.kind = "step" /\ ev.n >= 1 /\ ev.old # zero
    /\ B[ev.offset] # G(ev.prevVal, ev.refVal)

\* C9 as stated: whenever an address block replaces an earlier one, all 128
\* words of the earlier one have been consumed.
C9_AllWordsConsumed ==
  (ev.kind = "step" /\ ev.indep /\ ev.ctr0 >= 1 /\ ev.ctr # ev.ctr0) =>
    ev.used = blockLength

\* C9 as amended: in a data-independent segment the loop iteration at index i
\* consumes word i mod 128 of the address block whose counter is i div 128 + 1,
\* that block being G(zero, G(zero, in)) for the counter-input block in with
\* that counter; a block is replaced after 128 consumed words, except the
\* first block of segment (pass 0, slice 0), which is computed before the loop
\* whose first index is 2 and is replaced after 126.
C9_AddressBlocks ==
  (ev.kind = "step" /\ ev.indep) =>
    LET in == <<ev.n, ev.lane, ev.slice, P.memory, P.time, P.mode, ev.ctr>>
    IN  /\ ev.ctr = (ev.index \div blockLength) + 1
        /\ ev.ctr0 = IF ev.index % blockLength = 0 /\ ~(ev.n = 0 /\ ev.slice = 0 /\ ev.index = 0)
                     THEN ev.ctr - 1 ELSE ev.ctr
        /\ ev.addresses = G(zero, G(zero, InBlock(in)))
        /\ ev.random = Word(ev.addresses, ev.index % blockLength)
        /\ (ev.ctr0 >= 1 /\ ev.ctr # ev.ctr0) =>
             ev.used = IF ev.n = 0 /\ ev.slice = 0 /\ ev.ctr0 = 1
                       THEN blockLength - 2 ELSE blockLength

C9_Witness ==
  ev.kind = "step" /\ ev.indep /\ ev.n = 0 /\ ev.slice = 0
    /\ ev.index = blockLength /\ ev.ctr = 2 /\ ev.used = blockLength - 2

\* C10: at every position of a segment and for every random word, the window
\* size m handed to phi is at least 1 (the decrement does not wrap), and the
\* reference index lies in the reference lane and is not the index of the
\* block about to be written.
C10_ReferenceIndex ==
  alpha.at >= 0 =>
    LET lanes == syncPoints * alpha.segments
        offset == alpha.lane * lanes + alpha.slice * alpha.segments + alpha.at
    IN  /\ alpha.m[1] = 0 /\ alpha.m[2] >= 1 /\ alpha.m[2] < lanes
        /\ alpha.refLane >= 0 /\ alpha.refLane < alpha.threads
        /\ alpha.ref >= alpha.refLane * lanes
        /\ alpha.ref < (alpha.refLane + 1) * lanes
        /\ alpha.ref # offset

C10_Witness ==
  /\ alpha.at = 0 /\ alpha.n = 1 /\ alpha.slice = 0 /\ alpha.threads = 1
  /\ alpha.rand = <<0, 0, 0, 0>>
  /\ alpha.m = U32(3 * alpha.segments - 1)
  /\ alpha.ref = syncPoints * alpha.segments - 2
====
